---- MODULE Spec2Model ----
(***************************************************************************)
(* A model of two parts of rio:                                            *)
(*   - sugarloaf/src/font/mod.rs : Font::new, the font resolver            *)
(*   - rio/src/term/mod.rs       : Term::set_size and Term::draw, running  *)
(*                                 next to the thread that fills the       *)
(*                                 shared text buffer                      *)
(* SpecFont is one call of Font::new on an arbitrary host; SpecTerm is the *)
(* rendering thread (set_size / draw) interleaved with the producer.       *)
(***************************************************************************)
EXTENDS Integers, Sequences, FiniteSets, TLC

VARIABLES
    \* ---- Font::new -------------------------------------------------------
    macos,          \* cfg(target_os = "macos") of the build
    font_name,      \* the argument, a sequence of characters
    fpc,            \* position of the call
    font_arc_symbol,
    font_arc_unicode,
    host_family,    \* the host's answer for the family: "err", or its number of faces
    n_fonts,        \* fonts.len() of the family handle list (line 98)
    loaded,         \* what font.load() gave for the handles iterated so far
    text_fonts,     \* the ComposedFontArc being built (lines 100-110)
    result,         \* the Font returned, or NoBundle
    warns,          \* number of warn!("failed to load font ..") emitted
    host_queries,   \* the calls made on the host font system, in order
    \* ---- Term ------------------------------------------------------------
    size,           \* Term.size : PhysicalSize<u32>
    surface_config, \* what the surface was last configured with
    debug_build,    \* overflow checks on (debug) or off (release)
    tpc,            \* position of the rendering thread inside draw
    calls,          \* draw calls started
    ppc,            \* position of the producer thread
    mutex,          \* owner of the Mutex<String>: "none", "term", "producer"
    output,         \* the String behind the mutex
    commands,       \* the commands recorded on this call's encoder
    pass_open,      \* the render pass begun by draw and not yet dropped (0: none)
    passes,         \* render passes begun by draw in this call
    frame,          \* the SurfaceTexture held by this call (0: none)
    bounds,         \* the Section's bounds as evaluated at line 177
    queued,         \* the Section queued on text_brush, or NoSection
    events          \* the device/surface operations of all calls, in order

fvars == <<macos, font_name, fpc, font_arc_symbol, font_arc_unicode,
           host_family, n_fonts, loaded, text_fonts, result, warns, host_queries>>
tvars == <<size, surface_config, debug_build, tpc, calls, ppc, mutex, output,
           commands, pass_open, passes, frame, bounds, queued, events>>
vars == <<fvars, tvars>>

----------------------------------------------------------------------------
(* Bounds of the model *)

\* longest family enumeration the host returns
MaxFaces == 2
\* draw calls per behaviour
MaxDraws == 2
\* longest text the producer writes
MaxText == 2

----------------------------------------------------------------------------
(* sugarloaf/src/font/mod.rs *)

DEFAULT_FONT_NAME == <<"c","a","s","c","a","d","i","a","m","o","n","o">>

\* The bundled byte streams; a font value is the byte stream it was parsed from.
FONT_CASCADIAMONO_REGULAR     == [kind |-> "bundled", n |-> 1]
FONT_CASCADIAMONO_BOLD        == [kind |-> "bundled", n |-> 2]
FONT_CASCADIAMONO_ITALIC      == [kind |-> "bundled", n |-> 3]
FONT_CASCADIAMONO_BOLD_ITALIC == [kind |-> "bundled", n |-> 4]
FONT_EMOJI                    == [kind |-> "bundled", n |-> 5]
FONT_DEJAVU_MONO              == [kind |-> "bundled", n |-> 6]

\* Byte data of the host's fonts: the i-th face of the family, and the two
\* fonts macOS is asked for by postscript name.
FaceBytes(i)      == [kind |-> "host", n |-> i]
AppleSymbolsBytes == [kind |-> "host", n |-> 101]
ArialUnicodeBytes == [kind |-> "host", n |-> 102]

NoFont == [kind |-> "none", n |-> 0]

\* char::to_lowercase on the letters the names below are written in
LowerChar(c) ==
    CASE c = "A" -> "a" [] c = "C" -> "c" [] c = "D" -> "d" [] c = "F" -> "f"
      [] c = "I" -> "i" [] c = "M" -> "m" [] c = "N" -> "n" [] c = "O" -> "o"
      [] c = "R" -> "r" [] c = "S" -> "s" [] OTHER -> c

UpperChar(c) ==
    CASE c = "a" -> "A" [] c = "c" -> "C" [] c = "d" -> "D" [] c = "f" -> "F"
      [] c = "i" -> "I" [] c = "m" -> "M" [] c = "n" -> "N" [] c = "o" -> "O"
      [] c = "r" -> "R" [] c = "s" -> "S" [] OTHER -> c

\* String::to_lowercase
to_lowercase(s) == [i \in 1..Len(s) |-> LowerChar(s[i])]

\* s with the positions in up written in upper case
Spelling(s, up) == [i \in 1..Len(s) |-> IF i \in up THEN UpperChar(s[i]) ELSE s[i]]

UpperPatterns == { {}, {1}, {1, 9}, {12}, {2, 4, 6}, 1..12 }

DefaultSpellings == { Spelling(DEFAULT_FONT_NAME, up) : up \in UpperPatterns }

\* Names that are not the default: another family, in two spellings, and a
\* proper prefix of the default name.
OtherNames == { <<"f","i","r","a">>, <<"F","i","r","a">>,
                <<"c","a","s","c","a","d","i","a">> }

FontNames == DefaultSpellings \cup OtherNames

\* line 93 comparing without to_lowercase()
is_default_font_CaseSensitive(name) == name = DEFAULT_FONT_NAME

\* line 93
is_default_font(name) == to_lowercase(name) = DEFAULT_FONT_NAME


\* A face of the family as the host has it: its style, its weight in tenths
\* (Weight.0 is an f32) and how far loading it gets: load() fails, the loaded
\* font has no byte data to copy, the copied bytes are no font, or all is well.
Styles == {"Normal", "Italic", "Oblique"}
Weights10 == {2996, 4000, 4495, 5000, 6004, 7000, 8000, 9000}
FaceStatus == {"load_err", "copy_none", "parse_err", "ok"}
\* Every style and weight is tried on a face that loads; the three ways of
\* failing are tried on the weights in FailingWeights10.
FailingWeights10 == {4000, 4495, 7000}
Faces == { f \in [style : Styles, weight10 : Weights10, status : FaceStatus] :
             f.status = "ok" \/ f.weight10 \in FailingWeights10 }

\* What the host answers when macOS asks for a font by postscript name
\* (lines 54-63, 75-84): each step of the chain can fail.
AuxOutcomes == {"select_err", "load_err", "copy_none", "parse_err", "ok"}

\* host_family when select_family_by_name is an Err (no such family)
FamilyErr == 0 - 1

\* f32::round (half away from zero) followed by `as i32`, on tenths
round_weight(w10) == (w10 + 5) \div 10

\* The match of lines 115-160 with 500 in the bold arm instead of the normal one
Bucket_BoldFrom500(style, w) ==
    CASE style = "Normal" /\ w \in {300, 400}           -> "regular"
      [] style = "Normal" /\ w \in {500, 600, 700, 800} -> "bold"
      [] style = "Italic" /\ w = 400                     -> "italic"
      [] style = "Italic" /\ w = 700                     -> "bold_italic"
      [] OTHER                                           -> "none"

\* The match of lines 115-160: the slot a loaded face is classified into.
Bucket(style, w) ==
    CASE style = "Normal" /\ w \in {300, 400, 500} -> "regular"
      [] style = "Normal" /\ w \in {600, 700, 800} -> "bold"
      [] style = "Italic" /\ w = 400               -> "italic"
      [] style = "Italic" /\ w = 700               -> "bold_italic"
      [] OTHER                                     -> "none"

\* font_arc_from_font (lines 39-44) on the i-th face: None when
\* copy_font_data() is None (the `?`), a panic when try_from_vec_and_index
\* fails (the unwrap), Some(font) otherwise.
font_arc_from_font(f, i) ==
    CASE f.status = "copy_none" -> [tag |-> "None",  font |-> NoFont]
      [] f.status = "parse_err" -> [tag |-> "panic", font |-> NoFont]
      [] OTHER                  -> [tag |-> "Some",  font |-> FaceBytes(i)]

\* lines 100-110 and 176-183
BundledText ==
    [regular     |-> FONT_CASCADIAMONO_REGULAR,
     bold        |-> FONT_CASCADIAMONO_BOLD,
     italic      |-> FONT_CASCADIAMONO_ITALIC,
     bold_italic |-> FONT_CASCADIAMONO_BOLD_ITALIC]

NoText == [regular |-> NoFont, bold |-> NoFont, italic |-> NoFont, bold_italic |-> NoFont]

NoBundle == [text |-> NoText, symbol |-> NoFont, emojis |-> NoFont, unicode |-> NoFont]

FontInit ==
    /\ macos \in BOOLEAN
    /\ font_name \in FontNames
    /\ fpc = "start"
    /\ font_arc_symbol = NoFont
    /\ font_arc_unicode = NoFont
    /\ host_family \in {FamilyErr} \cup (0..MaxFaces)
    /\ n_fonts = 0
    /\ loaded = <<>>
    /\ text_fonts = NoText
    /\ result = NoBundle
    /\ warns = 0
    /\ host_queries = <<>>

\* lines 54-63: "Apple Symbols" by postscript name; every failure is an
\* unwrap() or todo!() panic.
AuxSymbol ==
    /\ fpc = "start" /\ macos
    /\ \E o \in AuxOutcomes :
        /\ host_queries' = host_queries \o
              (IF o = "select_err" THEN <<"select_by_postscript_name">>
               ELSE <<"select_by_postscript_name", "load">>)
        /\ IF o = "ok"
           THEN font_arc_symbol' = AppleSymbolsBytes /\ fpc' = "aux_unicode"
           ELSE font_arc_symbol' = font_arc_symbol /\ fpc' = "panicked"
    /\ UNCHANGED <<macos, font_name, host_family, font_arc_unicode, n_fonts, loaded,
                   text_fonts, result, warns, tvars>>

\* lines 75-84: "Arial Unicode MS" by postscript name
AuxUnicode ==
    /\ fpc = "aux_unicode"
    /\ \E o \in AuxOutcomes :
        /\ host_queries' = host_queries \o
              (IF o = "select_err" THEN <<"select_by_postscript_name">>
               ELSE <<"select_by_postscript_name", "load">>)
        /\ IF o = "ok"
           THEN font_arc_unicode' = ArialUnicodeBytes /\ fpc' = "name"
           ELSE font_arc_unicode' = font_arc_unicode /\ fpc' = "panicked"
    /\ UNCHANGED <<macos, font_name, host_family, font_arc_symbol, n_fonts, loaded,
                   text_fonts, result, warns, tvars>>

\* lines 87-91: every other target takes both from the bundled DejaVu
AuxBundled ==
    /\ fpc = "start" /\ ~macos
    /\ font_arc_unicode' = FONT_DEJAVU_MONO
    /\ font_arc_symbol' = FONT_DEJAVU_MONO
    /\ fpc' = "name"
    /\ UNCHANGED <<macos, font_name, host_family, n_fonts, loaded, text_fonts, result,
                   warns, host_queries, tvars>>

\* lines 93-94
TestName ==
    /\ fpc = "name"
    /\ fpc' = IF is_default_font(font_name) THEN "fallback" ELSE "lookup"
    /\ UNCHANGED <<macos, font_name, host_family, font_arc_symbol, font_arc_unicode, n_fonts,
                   loaded, text_fonts, result, warns, host_queries, tvars>>

\* lines 95-110: select_family_by_name fails, or gives a list of handles;
\* a non-empty list seeds the four slots with the bundled fonts.
FamilyLookup ==
    /\ fpc = "lookup"
    /\ host_queries' = Append(host_queries, "select_family_by_name")
    /\ IF host_family = FamilyErr
       THEN fpc' = "warn" /\ UNCHANGED <<n_fonts, text_fonts>>
       ELSE /\ n_fonts' = host_family
            /\ IF host_family = 0
               THEN fpc' = "warn" /\ text_fonts' = text_fonts
               ELSE fpc' = "loop" /\ text_fonts' = BundledText
    /\ UNCHANGED <<macos, font_name, host_family, font_arc_symbol, font_arc_unicode, loaded,
                   result, warns, tvars>>

\* The slots after the loop body (lines 112-161) has handled face f, the i-th.
\* panic is the unwrap of line 42.
LoopBodySlots(slots, f, i) ==
    LET slot == Bucket(f.style, round_weight(f.weight10))
        arc  == font_arc_from_font(f, i)
    IN  IF f.status = "load_err" \/ slot = "none"
          THEN [panic |-> FALSE, slots |-> slots]
        ELSE IF arc.tag = "panic" THEN [panic |-> TRUE, slots |-> slots]
        ELSE IF arc.tag = "None" THEN [panic |-> FALSE, slots |-> slots]
        ELSE [panic |-> FALSE, slots |-> [slots EXCEPT ![slot] = arc.font]]

\* lines 111-162: one iteration of `for font in fonts.iter()`
LoopBody ==
    /\ fpc = "loop" /\ Len(loaded) < n_fonts
    /\ \E f \in Faces :
        LET after == LoopBodySlots(text_fonts, f, Len(loaded) + 1)
        IN  /\ loaded' = Append(loaded, f)
            /\ host_queries' = Append(host_queries, "load")
            /\ text_fonts' = after.slots
            /\ fpc' = IF after.panic THEN "panicked" ELSE fpc
    /\ UNCHANGED <<macos, font_name, host_family, font_arc_symbol, font_arc_unicode, n_fonts,
                   result, warns, tvars>>

\* lines 164-169
ReturnFamily ==
    /\ fpc = "loop" /\ Len(loaded) = n_fonts
    /\ result' = [text |-> text_fonts, symbol |-> font_arc_symbol,
                  emojis |-> FONT_EMOJI, unicode |-> font_arc_unicode]
    /\ fpc' = "returned"
    /\ UNCHANGED <<macos, font_name, host_family, font_arc_symbol, font_arc_unicode, n_fonts,
                   loaded, text_fonts, warns, host_queries, tvars>>

\* line 173
Warn ==
    /\ fpc = "warn"
    /\ warns' = warns + 1
    /\ fpc' = "fallback"
    /\ UNCHANGED <<macos, font_name, host_family, font_arc_symbol, font_arc_unicode, n_fonts,
                   loaded, text_fonts, result, host_queries, tvars>>

\* lines 176-187
ReturnDefault ==
    /\ fpc = "fallback"
    /\ result' = [text |-> BundledText, symbol |-> font_arc_symbol,
                  emojis |-> FONT_EMOJI, unicode |-> font_arc_unicode]
    /\ fpc' = "returned"
    /\ UNCHANGED <<macos, font_name, host_family, font_arc_symbol, font_arc_unicode, n_fonts,
                   loaded, text_fonts, warns, host_queries, tvars>>

FontNext ==
    \/ AuxSymbol \/ AuxUnicode \/ AuxBundled \/ TestName \/ FamilyLookup
    \/ LoopBody \/ ReturnFamily \/ Warn \/ ReturnDefault


----------------------------------------------------------------------------
(* rio/src/term/mod.rs *)

\* A u32 is written as its two 16-bit halves, [hi, lo] for hi * 2^16 + lo.
Half == 65536

u32(n) == [hi |-> n \div Half, lo |-> n % Half]

U32_MAX == [hi |-> Half - 1, lo |-> Half - 1]

\* a >= b on u32
ge_u32(a, b) == a.hi > b.hi \/ (a.hi = b.hi /\ a.lo >= b.lo)

\* a - b modulo 2^32
wrapping_sub(a, b) ==
    LET borrow == IF a.lo < b.lo THEN 1 ELSE 0
    IN  [hi |-> (a.hi - b.hi - borrow) % Half, lo |-> (a.lo - b.lo) % Half]

\* the margin subtracted from the surface width at line 177
TEXT_MARGIN == 40

\* PhysicalSize<u32> values tried: the sides of the margin, an ordinary
\* window, the empty window and the largest u32.
Widths == {u32(0), u32(39), u32(40), u32(800), U32_MAX}
Heights == {u32(0), u32(600)}
Sizes == [width : Widths, height : Heights]

Pow2(k) == 2 ^ k

\* `n as f32` for a u32: exact below 2^24, else rounded to 24 significant
\* bits, ties to even. The f32 is written [mant, exp] for mant * 2^exp.
as_f32(n) ==
    IF n.hi < Pow2(8) THEN [mant |-> n.hi * Half + n.lo, exp |-> 0]
    ELSE LET e     == CHOOSE k \in 8..15 : Pow2(k) <= n.hi /\ n.hi < Pow2(k + 1)
             shift == e - 7
             ulp   == Pow2(shift)
             q     == n.hi * (Half \div ulp) + (n.lo \div ulp)
             r     == n.lo % ulp
             up    == (2 * r > ulp) \/ (2 * r = ulp /\ q % 2 = 1)
             m     == IF up THEN q + 1 ELSE q
         IN  IF m = Pow2(24) THEN [mant |-> Pow2(23), exp |-> shift + 1]
             ELSE [mant |-> m, exp |-> shift]

\* u32 subtraction as the build performs it: with overflow checks a panic
\* ("attempt to subtract with overflow"), without them the wrapped difference.
sub_u32(a, b, checked) ==
    IF ge_u32(a, b) THEN [panic |-> FALSE, value |-> wrapping_sub(a, b)]
    ELSE IF checked THEN [panic |-> TRUE, value |-> u32(0)]
    ELSE [panic |-> FALSE, value |-> wrapping_sub(a, b)]

NoBounds == <<as_f32(u32(0)), as_f32(u32(0))>>

NoSection == [bounds |-> NoBounds, text |-> <<>>, set |-> FALSE]

\* images the surface has handed out so far
Acquired(ev) == Cardinality({i \in 1..Len(ev) : ev[i].op = "acquire"})

\* The statements of draw with the text block (lines 174-193) written before
\* the bar block (lines 150-172)
StepAfter_TextFirst(pc) ==
    CASE pc = "encoder"     -> "acquire"
      [] pc = "acquire"     -> "pipeline"
      [] pc = "pipeline"    -> "bounds"
      [] pc = "bounds"      -> "lock"
      [] pc = "lock"        -> "queue"
      [] pc = "queue"       -> "draw_queued"
      [] pc = "draw_queued" -> "begin_pass"
      [] pc = "begin_pass"  -> "bar"
      [] pc = "bar"         -> "end_pass"
      [] pc = "end_pass"    -> "finish"
      [] pc = "finish"      -> "submit"
      [] pc = "submit"      -> "present"
      [] pc = "present"     -> "recall"
      [] pc = "recall"      -> "idle"

\* The order of the statements of draw (lines 100-200): the position after
\* each one.
StepAfter(pc) ==
    CASE pc = "encoder"     -> "acquire"
      [] pc = "acquire"     -> "pipeline"
      [] pc = "pipeline"    -> "begin_pass"
      [] pc = "begin_pass"  -> "bar"
      [] pc = "bar"         -> "end_pass"
      [] pc = "end_pass"    -> "bounds"
      [] pc = "bounds"      -> "lock"
      [] pc = "lock"        -> "queue"
      [] pc = "queue"       -> "draw_queued"
      [] pc = "draw_queued" -> "finish"
      [] pc = "finish"      -> "submit"
      [] pc = "submit"      -> "present"
      [] pc = "present"     -> "recall"
      [] pc = "recall"      -> "idle"

\* The Term as Term::new leaves it (lines 43-78), on a window of ordinary
\* size; set_size brings every other size.
TermInit ==
    /\ size = [width |-> u32(800), height |-> u32(600)]
    /\ surface_config = size
    /\ debug_build \in BOOLEAN
    /\ tpc = "idle"
    /\ calls = 0
    /\ ppc = "idle"
    /\ mutex = "none"
    /\ output = <<>>
    /\ commands = <<>>
    /\ pass_open = 0
    /\ passes = 0
    /\ frame = 0
    /\ bounds = NoBounds
    /\ queued = NoSection
    /\ events = <<>>

\* set_size and configure_surface, lines 81-98: called by the rendering
\* thread between frames.
set_size ==
    /\ tpc = "idle"
    /\ \E new_size \in Sizes :
        /\ size' = new_size
        /\ surface_config' = new_size
    /\ UNCHANGED <<debug_build, tpc, calls, ppc, mutex, output, commands,
                   pass_open, passes, frame, bounds, queued, events, fvars>>

\* lines 100-105: draw is entered and the encoder created
CreateEncoder ==
    /\ tpc = "idle" /\ calls < MaxDraws
    /\ calls' = calls + 1
    /\ commands' = <<>>
    /\ passes' = 0
    /\ tpc' = StepAfter("encoder")
    /\ UNCHANGED <<size, surface_config, debug_build, ppc, mutex, output,
                   pass_open, frame, bounds, queued, events, fvars>>

\* lines 107-110: get_current_texture() gives the next image
AcquireOk ==
    /\ tpc = "acquire"
    /\ frame' = Acquired(events) + 1
    /\ events' = Append(events, [op |-> "acquire", call |-> calls,
                                 image |-> Acquired(events) + 1, cmds |-> <<>>])
    /\ tpc' = StepAfter("acquire")
    /\ UNCHANGED <<size, surface_config, debug_build, calls, ppc, mutex, output,
                   commands, pass_open, passes, bounds, queued, fvars>>

\* line 107 with the Err ignored instead of expect()ed: draw goes on
AcquireFail_Ignored ==
    /\ tpc = "acquire"
    /\ events' = Append(events, [op |-> "acquire_failed", call |-> calls,
                                 image |-> 0, cmds |-> <<>>])
    /\ tpc' = StepAfter("acquire")
    /\ UNCHANGED <<size, surface_config, debug_build, calls, ppc, mutex, output,
                   commands, pass_open, passes, frame, bounds, queued, fvars>>

\* line 107: get_current_texture() is an Err and expect() panics
AcquireFail ==
    /\ tpc = "acquire"
    /\ events' = Append(events, [op |-> "acquire_failed", call |-> calls,
                                 image |-> 0, cmds |-> <<>>])
    /\ tpc' = "panicked"
    /\ UNCHANGED <<size, surface_config, debug_build, calls, ppc, mutex, output,
                   commands, pass_open, passes, frame, bounds, queued, fvars>>

\* lines 112-148: the pipeline layout and the pipeline, rebuilt every frame
CreatePipeline ==
    /\ tpc = "pipeline"
    /\ tpc' = StepAfter("pipeline")
    /\ UNCHANGED <<size, surface_config, debug_build, calls, ppc, mutex, output,
                   commands, pass_open, passes, frame, bounds, queued, events,
                   fvars>>

\* lines 151-163: begin_render_pass on the frame's view, clearing it
BeginPass ==
    /\ tpc = "begin_pass"
    /\ passes' = passes + 1
    /\ pass_open' = passes + 1
    /\ commands' = Append(commands, [cmd |-> "begin_render_pass", view |-> frame,
                                     pass |-> passes + 1])
    /\ tpc' = StepAfter("begin_pass")
    /\ UNCHANGED <<size, surface_config, debug_build, calls, ppc, mutex, output,
                   frame, bounds, queued, events, fvars>>

\* lines 165-171: the bar's pipeline and buffers are bound and its indexed
\* draw recorded in the open pass
BarDraw ==
    /\ tpc = "bar"
    /\ commands' = Append(commands, [cmd |-> "bar_draw", view |-> frame,
                                     pass |-> pass_open])
    /\ tpc' = StepAfter("bar")
    /\ UNCHANGED <<size, surface_config, debug_build, calls, ppc, mutex, output,
                   pass_open, passes, frame, bounds, queued, events, fvars>>

\* line 172 without the block: render_pass lives on past the bar draw
EndPass_Missing ==
    /\ tpc = "end_pass"
    /\ tpc' = StepAfter("end_pass")
    /\ UNCHANGED <<size, surface_config, debug_build, calls, ppc, mutex, output,
                   commands, pass_open, passes, frame, bounds, queued, events,
                   fvars>>

\* line 172: the block ends, render_pass is dropped and the pass is over
EndPass ==
    /\ tpc = "end_pass"
    /\ commands' = Append(commands, [cmd |-> "end_render_pass", view |-> frame,
                                     pass |-> pass_open])
    /\ pass_open' = 0
    /\ tpc' = StepAfter("end_pass")
    /\ UNCHANGED <<size, surface_config, debug_build, calls, ppc, mutex, output,
                   passes, frame, bounds, queued, events, fvars>>

\* line 177: the Section's bounds, evaluated before the text field
EvalBounds ==
    /\ tpc = "bounds"
    /\ LET w == sub_u32(size.width, u32(TEXT_MARGIN), debug_build)
       IN  IF w.panic
           THEN tpc' = "panicked" /\ bounds' = bounds
           ELSE /\ tpc' = StepAfter("bounds")
                /\ bounds' = <<as_f32(w.value), as_f32(size.height)>>
    /\ UNCHANGED <<size, surface_config, debug_build, calls, ppc, mutex, output,
                   commands, pass_open, passes, frame, queued, events, fvars>>

\* line 178: output.lock() waits for the mutex and takes it
LockOutput ==
    /\ tpc = "lock"
    /\ mutex = "none"
    /\ mutex' = "term"
    /\ tpc' = StepAfter("lock")
    /\ UNCHANGED <<size, surface_config, debug_build, calls, ppc, output,
                   commands, pass_open, passes, frame, bounds, queued, events,
                   fvars>>

\* lines 175-182 with the guard bound to a local of draw: it is not dropped
\* at the end of the statement
QueueText_GuardKept ==
    /\ tpc = "queue"
    /\ queued' = [bounds |-> bounds, text |-> output, set |-> TRUE]
    /\ tpc' = StepAfter("queue")
    /\ UNCHANGED <<size, surface_config, debug_build, calls, ppc, mutex, output,
                   commands, pass_open, passes, frame, bounds, events, fvars>>

\* lines 175-182: text_brush.queue(..) lays out the text read through the
\* guard; the guard is a temporary of this statement and is dropped at its end.
QueueText ==
    /\ tpc = "queue"
    /\ queued' = [bounds |-> bounds, text |-> output, set |-> TRUE]
    /\ mutex' = "none"
    /\ tpc' = StepAfter("queue")
    /\ UNCHANGED <<size, surface_config, debug_build, calls, ppc, output,
                   commands, pass_open, passes, frame, bounds, events, fvars>>

\* lines 184-192: draw_queued records the queued text on the encoder,
\* targeting view
DrawQueuedOk ==
    /\ tpc = "draw_queued"
    /\ commands' = Append(commands, [cmd |-> "text_draw", view |-> frame,
                                     pass |-> pass_open])
    /\ queued' = NoSection
    /\ tpc' = StepAfter("draw_queued")
    /\ UNCHANGED <<size, surface_config, debug_build, calls, ppc, mutex, output,
                   pass_open, passes, frame, bounds, events, fvars>>

\* line 192: draw_queued is an Err and expect() panics
DrawQueuedFail ==
    /\ tpc = "draw_queued"
    /\ tpc' = "panicked"
    /\ UNCHANGED <<size, surface_config, debug_build, calls, ppc, mutex, output,
                   commands, pass_open, passes, frame, bounds, queued, events,
                   fvars>>

\* line 195
BeltFinish ==
    /\ tpc = "finish"
    /\ events' = Append(events, [op |-> "belt_finish", call |-> calls,
                                 image |-> 0, cmds |-> <<>>])
    /\ tpc' = StepAfter("finish")
    /\ UNCHANGED <<size, surface_config, debug_build, calls, ppc, mutex, output,
                   commands, pass_open, passes, frame, bounds, queued, fvars>>

\* line 196: the encoder is finished and its command buffer submitted
Submit ==
    /\ tpc = "submit"
    /\ events' = Append(events, [op |-> "submit", call |-> calls,
                                 image |-> 0, cmds |-> commands])
    /\ commands' = <<>>
    /\ tpc' = StepAfter("submit")
    /\ UNCHANGED <<size, surface_config, debug_build, calls, ppc, mutex, output,
                   pass_open, passes, frame, bounds, queued, fvars>>

\* line 197 left out: the frame is dropped unpresented
Present_Skipped ==
    /\ tpc = "present"
    /\ frame' = 0
    /\ tpc' = StepAfter("present")
    /\ UNCHANGED <<size, surface_config, debug_build, calls, ppc, mutex, output,
                   commands, pass_open, passes, bounds, queued, events, fvars>>

\* line 197
Present ==
    /\ tpc = "present"
    /\ events' = Append(events, [op |-> "present", call |-> calls,
                                 image |-> frame, cmds |-> <<>>])
    /\ frame' = 0
    /\ tpc' = StepAfter("present")
    /\ UNCHANGED <<size, surface_config, debug_build, calls, ppc, mutex, output,
                   commands, pass_open, passes, bounds, queued, fvars>>

\* line 200: draw returns
BeltRecall ==
    /\ tpc = "recall"
    /\ events' = Append(events, [op |-> "belt_recall", call |-> calls,
                                 image |-> 0, cmds |-> <<>>])
    /\ tpc' = StepAfter("recall")
    /\ UNCHANGED <<size, surface_config, debug_build, calls, ppc, mutex, output,
                   commands, pass_open, passes, frame, bounds, queued, fvars>>

\* The producer thread holding the other Arc<Mutex<String>> (the parameter of
\* line 100): it locks, appends to the string and unlocks.
ProducerLock ==
    /\ ppc = "idle" /\ mutex = "none" /\ Len(output) < MaxText
    /\ mutex' = "producer"
    /\ ppc' = "locked"
    /\ UNCHANGED <<size, surface_config, debug_build, tpc, calls, output,
                   commands, pass_open, passes, frame, bounds, queued, events,
                   fvars>>

ProducerWrite ==
    /\ ppc = "locked"
    /\ output' = Append(output, "x")
    /\ ppc' = "written"
    /\ UNCHANGED <<size, surface_config, debug_build, tpc, calls, mutex,
                   commands, pass_open, passes, frame, bounds, queued, events,
                   fvars>>

ProducerUnlock ==
    /\ ppc = "written"
    /\ mutex' = "none"
    /\ ppc' = "idle"
    /\ UNCHANGED <<size, surface_config, debug_build, tpc, calls, output,
                   commands, pass_open, passes, frame, bounds, queued, events,
                   fvars>>

TermNext ==
    \/ set_size \/ CreateEncoder \/ AcquireOk \/ AcquireFail \/ CreatePipeline
    \/ BeginPass \/ BarDraw \/ EndPass \/ EvalBounds \/ LockOutput \/ QueueText
    \/ DrawQueuedOk \/ DrawQueuedFail \/ BeltFinish \/ Submit \/ Present
    \/ BeltRecall \/ ProducerLock \/ ProducerWrite \/ ProducerUnlock

----------------------------------------------------------------------------
(* Specifications *)

\* Font::new alone: the renderer stays as constructed.
FontIdle ==
    /\ macos = FALSE
    /\ font_name = DEFAULT_FONT_NAME
    /\ fpc = "start"
    /\ font_arc_symbol = NoFont
    /\ font_arc_unicode = NoFont
    /\ host_family = FamilyErr
    /\ n_fonts = 0
    /\ loaded = <<>>
    /\ text_fonts = NoText
    /\ result = NoBundle
    /\ warns = 0
    /\ host_queries = <<>>

TermIdle ==
    /\ size = [width |-> u32(800), height |-> u32(600)]
    /\ surface_config = size
    /\ debug_build = TRUE
    /\ tpc = "idle"
    /\ calls = 0
    /\ ppc = "idle"
    /\ mutex = "none"
    /\ output = <<>>
    /\ commands = <<>>
    /\ pass_open = 0
    /\ passes = 0
    /\ frame = 0
    /\ bounds = NoBounds
    /\ queued = NoSection
    /\ events = <<>>

InitFont == FontInit /\ TermIdle

SpecFont == InitFont /\ [][FontNext]_vars

\* Font::new as built for the targets other than macOS (lines 87-91 compiled,
\* lines 52-85 not).
FontNextNotMacos ==
    \/ AuxBundled \/ TestName \/ FamilyLookup
    \/ LoopBody \/ ReturnFamily \/ Warn \/ ReturnDefault

InitFontNotMacos == FontInit /\ ~macos /\ TermIdle

SpecFontNotMacos == InitFontNotMacos /\ [][FontNextNotMacos]_vars

InitTerm == TermInit /\ FontIdle

SpecTerm == InitTerm /\ [][TermNext]_vars


----------------------------------------------------------------------------
(* Font::new: properties *)

Slots == {"regular", "bold", "italic", "bold_italic"}

FontDone == fpc \in {"returned", "panicked"}

\* Every slot of the returned bundle holds a font.
AllSlotsValid(b) ==
    /\ \A s \in Slots : b.text[s] # NoFont
    /\ b.symbol # NoFont /\ b.emojis # NoFont /\ b.unicode # NoFont

\* C1: Font::new is total: on every name and every host (family absent or
\* empty, faces that fail to load, to give their bytes, or to parse) it never
\* aborts, and the bundle it returns holds a valid font in all seven slots.
C1_Total ==
    /\ fpc # "panicked"
    /\ fpc = "returned" => AllSlotsValid(result)

\* C2: for a name that is not the default and a family the host lacks (the
\* lookup fails or gives no face), Font::new returns the four bundled text
\* fonts and has warned exactly once.
C2_AbsentFamilyFallsBack ==
    (FontDone /\ font_name \in OtherNames /\ host_family \in {FamilyErr, 0})
        => (fpc = "returned" /\ result.text = BundledText /\ warns = 1)

AuxQueries ==
    <<"select_by_postscript_name", "load", "select_by_postscript_name", "load">>

IsPrefix(p, q) == Len(p) <= Len(q) /\ SubSeq(q, 1, Len(p)) = p

Rounded(w10) ==
    CHOOSE r \in (w10 \div 10)..(w10 \div 10 + 1) : 10 * r - 5 <= w10 /\ w10 < 10 * r + 5

\* The buckets as the claim lists them.
InClaimBucket(f, s) ==
    LET w == Rounded(f.weight10)
    IN  CASE s = "regular"     -> f.style = "Normal" /\ w \in {300, 400, 500}
          [] s = "bold"        -> f.style = "Normal" /\ w \in {600, 700, 800}
          [] s = "italic"      -> f.style = "Italic" /\ w = 400
          [] s = "bold_italic" -> f.style = "Italic" /\ w = 700

\* the largest member of a non-empty set of indices
Last(S) == CHOOSE i \in S : \A j \in S : j <= i

\* The slot's font when the last of the faces in `hits` wins.
LastWins(hits, s) == IF hits = {} THEN BundledText[s] ELSE FaceBytes(Last(hits))

\* C4 as stated: after Font::new on a non-empty family each text slot is the
\* byte data of the last loaded face in the slot's bucket, the bundled font
\* when the bucket is empty.
C4_LastFaceInBucket ==
    (fpc = "returned" /\ n_fonts > 0)
        => \A s \in Slots :
             result.text[s] =
                LastWins({i \in 1..Len(loaded) :
                            /\ loaded[i].status # "load_err"
                            /\ InClaimBucket(loaded[i], s)}, s)

\* C4 as amended: the last face in the slot's bucket that loads and whose
\* byte data can be copied; a face that does not load, or whose
\* copy_font_data() is None, changes no slot, as a face outside the buckets.
C4_LastCopiedFaceInBucket ==
    (fpc = "returned" /\ n_fonts > 0)
        => \A s \in Slots :
             result.text[s] =
                LastWins({i \in 1..Len(loaded) :
                            /\ loaded[i].status \notin {"load_err", "copy_none"}
                            /\ InClaimBucket(loaded[i], s)}, s)

\* C4 witness: two faces of the regular bucket, the first copied, the second
\* with no byte data: the first stays in the slot.
C4_Witness ==
    /\ fpc = "returned" /\ Len(loaded) = 2
    /\ loaded[1].status = "ok" /\ InClaimBucket(loaded[1], "regular")
    /\ loaded[2].status = "copy_none" /\ InClaimBucket(loaded[2], "regular")
    /\ result.text.regular = FaceBytes(1)
    /\ result.text.bold = FONT_CASCADIAMONO_BOLD

----------------------------------------------------------------------------
(* Term::draw: properties *)

EventsOf(op) == {i \in 1..Len(events) : events[i].op = op}

EventsOfCall(op, k) == {i \in EventsOf(op) : events[i].call = k}

\* positions of the commands named c in a command stream
At(cmds, c) == {i \in 1..Len(cmds) : cmds[i].cmd = c}

\* C5: the rendering thread holds the buffer's mutex only at the statement
\* that reads the text: not when draw_queued records the text, nor at
\* staging_belt.finish, queue.submit or frame.present; and every change of
\* the buffer is the producer's, made under the lock.
C5_LockOnlyWhileReading ==
    /\ [](mutex = "term" => tpc = "queue")
    /\ [][output' # output => (mutex = "producer" /\ ppc = "locked" /\ tpc' = tpc)]_vars

\* C5 witness: the producer holds the lock and has written while the
\* rendering thread is about to submit the frame.
C5_Witness ==
    /\ tpc = "submit" /\ mutex = "producer" /\ ppc = "written"
    /\ Len(output) > 0

\* C6: after n successful draw calls exactly n images were acquired, n
\* command buffers submitted and n images presented; each call acquires one
\* image, submits once and then presents that image, and no image is
\* presented twice.
C6_OneFramePerCall ==
    /\ tpc = "idle" =>
         /\ Cardinality(EventsOf("acquire")) = calls
         /\ Cardinality(EventsOf("submit")) = calls
         /\ Cardinality(EventsOf("present")) = calls
         /\ \A k \in 1..calls :
              \E a \in EventsOfCall("acquire", k), sb \in EventsOfCall("submit", k),
                 p \in EventsOfCall("present", k) :
                  /\ a < sb /\ sb < p
                  /\ events[p].image = events[a].image
    /\ \A p, q \in EventsOf("present") : events[p].image = events[q].image => p = q
    /\ \A a, b \in EventsOf("acquire") : events[a].image = events[b].image => a = b

\* C6 witness: two draw calls have returned.
C6_Witness == tpc = "idle" /\ calls = 2 /\ Cardinality(EventsOf("present")) = 2

\* C7: in every frame the bar's draw is recorded before the text draw and
\* both are in the one command buffer the frame submits.
C7_BarBeforeText ==
    /\ \A i \in EventsOf("submit") :
         LET cmds == events[i].cmds
         IN  /\ Cardinality(At(cmds, "bar_draw")) = 1
             /\ Cardinality(At(cmds, "text_draw")) = 1
             /\ \A b \in At(cmds, "bar_draw"), t \in At(cmds, "text_draw") : b < t
    /\ \A k \in 1..calls : Cardinality(EventsOfCall("submit", k)) <= 1
    /\ \A t \in At(commands, "text_draw") : \E b \in At(commands, "bar_draw") : b < t

\* C7 witness: a frame has been submitted.
C7_Witness == tpc = "present" /\ EventsOfCall("submit", calls) # {}

\* C8: when acquiring the image fails the frame ends there: nothing is
\* submitted or presented in that call and the acquisition is not tried again.
C8_AcquireFailureEndsFrame ==
    \A i \in EventsOf("acquire_failed") :
        /\ i = Len(events)
        /\ tpc = "panicked"
        /\ EventsOfCall("acquire", events[i].call) = {}
        /\ EventsOfCall("submit", events[i].call) = {}
        /\ EventsOfCall("present", events[i].call) = {}
        /\ Cardinality(EventsOfCall("acquire_failed", events[i].call)) = 1

\* C8 witness: the second frame's acquisition failed after a first frame
\* was presented.
C8_Witness ==
    /\ EventsOfCall("acquire_failed", 2) # {}
    /\ EventsOfCall("present", 1) # {}

\* every command stream of the model: the one being recorded and the ones
\* submitted
Streams == {commands} \cup {events[i].cmds : i \in EventsOf("submit")}

\* C9 as stated: draw begins exactly one render pass and the bar draw and
\* the text draw are both recorded inside it, on the same attachment: the
\* pass is open when the text draw is recorded.
C9_TextInsideBarPass ==
    \A cmds \in Streams : \A t \in At(cmds, "text_draw") :
        /\ cmds[t].pass # 0
        /\ Cardinality(At(cmds, "begin_render_pass")) = 1
        /\ \A b \in At(cmds, "bar_draw") :
             cmds[b].pass = cmds[t].pass /\ cmds[b].view = cmds[t].view

\* C9 as amended: draw itself begins exactly one render pass per call and
\* records the bar draw inside it; that pass is ended (render_pass dropped,
\* line 172) before the text draw is recorded, and draw_queued records the
\* text on the same encoder against the same view as the bar's pass.
C9_PassEndedBeforeText ==
    \A cmds \in Streams : \A t \in At(cmds, "text_draw") :
        /\ cmds[t].pass = 0
        /\ Cardinality(At(cmds, "begin_render_pass")) = 1
        /\ Cardinality(At(cmds, "bar_draw")) = 1
        /\ \A g \in At(cmds, "begin_render_pass"), b \in At(cmds, "bar_draw") :
             /\ g < b
             /\ cmds[b].pass = cmds[g].pass /\ cmds[b].pass # 0
             /\ \E e \in At(cmds, "end_render_pass") :
                  b < e /\ e < t /\ cmds[e].pass = cmds[g].pass
             /\ cmds[t].view = cmds[g].view /\ cmds[t].view # 0

\* C9 witness: the text draw of the second frame has been recorded.
C9_Witness ==
    /\ calls = 2 /\ tpc = "finish"
    /\ At(commands, "text_draw") # {} /\ pass_open = 0 /\ passes = 1

\* C10: draw never evaluates width - 40 with width < 40, whatever sizes
\* set_size was given.
C10_NoUnderflow ==
    tpc = "bounds" => ge_u32(size.width, u32(TEXT_MARGIN))

====
